---- MODULE Spec2Model ----
(***************************************************************************)
(* Model of the timeline pipeline of the memory engine (src/timeline.py,   *)
(* called from src/main_memory_engine.py): filter_events_for_day,          *)
(* group_into_sessions and summarize_session over Event records            *)
(* (src/models.py).                                                        *)
(*                                                                         *)
(* Timestamps are integers (minutes on a scaled-down clock); a calendar    *)
(* day is DayLen consecutive ticks, so datetime.date() is t \div DayLen    *)
(* and a timedelta is a difference of ticks.  Event.source_type and        *)
(* Event.details are never read by src/timeline.py and are left out of    *)
(* the record.                                                             *)
(*                                                                         *)
(* The caller's list is drawn from two families: lists of events with     *)
(* arbitrary start timestamps (any order, several days), and time-sorted  *)
(* lists whose events vary in end, title, people and location.            *)
(***************************************************************************)
EXTENDS Integers, Sequences, FiniteSets, TLC

\* ----- bounds of the model ------------------------------------------------
MaxEvents == 3
MaxTime == 5
DayLen == 3
MaxGap == 2
MaxFragments == 3
MaxEngineEvents == 2

\* ----- Optional[...] fields of Event (src/models.py) ------------------------
NoneTime == -1
NoneLoc == "None"

Times == 0..MaxTime
Dates == 0..(MaxTime \div DayLen)
Gaps == (-1)..MaxGap

VARIABLES
    events,        \* the caller's event list (all_events)
    target_date,   \* the day asked for
    gap_minutes,   \* the gap threshold
    pc,            \* where the caller is: "init", "filtered", "grouped", "called"
    day_events,    \* result of filter_events_for_day
    group_input,   \* the list group_into_sessions was called with
    sessions,      \* result of group_into_sessions
    summ_args,     \* the sessions summarize_session was called with, in call order
    summaries,     \* the summaries it returned, in call order
    raised,        \* the exception the last call raised ("" when none)
    raw_text,      \* a text handed to _sanitize_text
    sanitized,     \* _sanitize_text(raw_text)
    resanitized,   \* _sanitize_text(sanitized)
    result,        \* the dict run_engine_for_date returned
    story_calls,   \* how often generate_ai_story_with_ollama was called
    row,           \* a source row handed to a normalizer
    wider_gap,     \* a second threshold, at least gap_minutes
    wider_sessions \* group_into_sessions(group_input, wider_gap)

timeline_vars == <<events, target_date, gap_minutes, pc, day_events, group_input,
                   sessions, summ_args, summaries, raised>>

text_vars == <<raw_text, sanitized, resanitized>>

engine_vars == <<result, story_calls>>

ingest_vars == <<row>>

regroup_vars == <<wider_gap, wider_sessions>>

other_vars == <<text_vars, engine_vars, ingest_vars, regroup_vars>>

vars == <<timeline_vars, other_vars>>

\* ----- small helpers -------------------------------------------------------
Range(s) == {s[i] : i \in 1..Len(s)}

\* the member of a one-element set; in only({f(v) : v \in {e}}) the value of e
\* is computed once, however often f uses v
only(S) == CHOOSE x \in S : TRUE

RECURSIVE Flatten(_)
Flatten(ss) == IF ss = <<>> THEN <<>> ELSE Head(ss) \o Flatten(Tail(ss))

\* datetime.date() of a timestamp
date(t) == t \div DayLen

\* ----- sorted(..., key=lambda e: e.timestamp_start) --------------------------
\* variant: a sort that puts an element before the elements of equal key
insert_unstable(acc, e) ==
    LET k == Cardinality({i \in 1..Len(acc) :
                            acc[i].timestamp_start < e.timestamp_start})
    IN  SubSeq(acc, 1, k) \o <<e>> \o SubSeq(acc, k + 1, Len(acc))

\* Python's sorted is stable: an element goes after every element whose key
\* is less than or equal to its own.
insert_by_start(acc, e) ==
    LET k == Cardinality({i \in 1..Len(acc) :
                            acc[i].timestamp_start <= e.timestamp_start})
    IN  SubSeq(acc, 1, k) \o <<e>> \o SubSeq(acc, k + 1, Len(acc))

RECURSIVE sort_from(_, _, _)
sort_from(s, i, acc) ==
    IF i > Len(s) THEN acc ELSE sort_from(s, i + 1, insert_by_start(acc, s[i]))

sorted_by_start(s) == sort_from(s, 1, <<>>)

\* ----- filter_events_for_day -----------------------------------------------
same_day(e, d) == date(e.timestamp_start) = d

\* variant: the comprehension's date test left out
filter_no_date_test(evs, d) == sorted_by_start(evs)

\* variant: the day's events returned in input order
filter_unsorted(evs, d) == SelectSeq(evs, LAMBDA e : same_day(e, d))

filter_events_for_day(evs, d) ==
    sorted_by_start(SelectSeq(evs, LAMBDA e : same_day(e, d)))

\* ----- group_into_sessions -------------------------------------------------
\* variant: the gap measured from the start of the current session
RECURSIVE group_loop_from_session_start(_, _, _, _, _)
group_loop_from_session_start(evs, k, acc, current_session, gap_min) ==
    IF k > Len(evs) THEN Append(acc, current_session)
    ELSE LET curr == evs[k]
             gap  == curr.timestamp_start - current_session[1].timestamp_start
         IN  IF gap <= gap_min
             THEN group_loop_from_session_start(
                      evs, k + 1, acc, Append(current_session, curr), gap_min)
             ELSE group_loop_from_session_start(
                      evs, k + 1, Append(acc, current_session), <<curr>>, gap_min)

\* variant: events are joined when the gap is at least the threshold
RECURSIVE group_loop_gap_at_least(_, _, _, _, _)
group_loop_gap_at_least(evs, k, acc, current_session, gap_min) ==
    IF k > Len(evs) THEN Append(acc, current_session)
    ELSE LET prev == evs[k - 1]
             curr == evs[k]
             gap  == curr.timestamp_start - prev.timestamp_start
         IN  IF gap >= gap_min
             THEN group_loop_gap_at_least(
                      evs, k + 1, acc, Append(current_session, curr), gap_min)
             ELSE group_loop_gap_at_least(
                      evs, k + 1, Append(acc, current_session), <<curr>>, gap_min)

\* the loop over zip(events, events[1:]) and the final append: k is the index
\* of curr in events
RECURSIVE group_loop(_, _, _, _, _)
group_loop(evs, k, acc, current_session, gap_min) ==
    IF k > Len(evs) THEN Append(acc, current_session)
    ELSE LET prev == evs[k - 1]
             curr == evs[k]
             gap  == curr.timestamp_start - prev.timestamp_start
         IN  IF gap <= gap_min
             THEN group_loop(evs, k + 1, acc, Append(current_session, curr), gap_min)
             ELSE group_loop(evs, k + 1, Append(acc, current_session), <<curr>>, gap_min)

\* variant: the append after the loop left out
group_drop_last_session(evs, gap_min) ==
    IF evs = <<>> THEN <<>>
    ELSE LET all == group_loop(evs, 2, <<>>, <<evs[1]>>, gap_min)
         IN  SubSeq(all, 1, Len(all) - 1)

\* variant: no guard on empty input, an empty current session flushed first
group_flush_before_first(evs, gap_min) ==
    IF evs = <<>> THEN << <<>> >>
    ELSE <<  <<>> >> \o group_loop(evs, 2, <<>>, <<evs[1]>>, gap_min)

group_into_sessions(evs, gap_min) ==
    IF evs = <<>> THEN <<>>
    ELSE group_loop(evs, 2, <<>>, <<evs[1]>>, gap_min)

\* ----- summarize_session ---------------------------------------------------
\* list(a_set): the iteration order of a set of str is not fixed by the
\* language (string hashes are randomised per process), so the list is any
\* arrangement of the set's members.
list_of_set(S) ==
    {p \in [1..Cardinality(S) -> S] :
        \A i, j \in 1..Cardinality(S) : i # j => p[i] # p[j]}

session_start(session) == session[1].timestamp_start

\* variant: no fallback to the start timestamp
session_end_no_fallback(session) == session[Len(session)].timestamp_end

session_end(session) ==
    LET last == session[Len(session)]
    IN  IF last.timestamp_end # NoneTime THEN last.timestamp_end
        ELSE last.timestamp_start

\* variant: the truthiness test on e.location left out
locations_unfiltered(session) == {e.location : e \in Range(session)}

locations_of(session) ==
    {e.location : e \in {x \in Range(session) : x.location \notin {NoneLoc, ""}}}

people_of(session) == UNION {Range(e.people) : e \in Range(session)}

\* variant: titles collected without repeats
RECURSIVE titles_first_seen_only(_)
titles_first_seen_only(session) ==
    IF session = <<>> THEN <<>>
    ELSE LET rest == titles_first_seen_only(SubSeq(session, 1, Len(session) - 1))
             t    == session[Len(session)].title
         IN  IF t = "" \/ t \in Range(rest) THEN rest ELSE Append(rest, t)

titles_of(session) ==
    LET f == SelectSeq(session, LAMBDA e : e.title # "")
    IN  [i \in 1..Len(f) |-> f[i].title]

\* variant: an empty session summarised with empty fields
summarize_even_if_empty(session) ==
    IF session = <<>>
    THEN {[start |-> NoneTime, end |-> NoneTime, locations |-> <<>>,
           people |-> <<>>, titles |-> <<>>, raw_events |-> session]}
    ELSE {[start |-> session_start(session), end |-> session_end(session),
           locations |-> l, people |-> p, titles |-> titles_of(session),
           raw_events |-> session] :
             l \in list_of_set(locations_of(session)),
             p \in list_of_set(people_of(session))}

\* the set of summaries one call can return; the empty set when it raises
summarize_session(session) ==
    IF session = <<>> THEN {}   \* session[0] raises IndexError
    ELSE {[start |-> session_start(session), end |-> session_end(session),
           locations |-> l, people |-> p, titles |-> titles_of(session),
           raw_events |-> session] :
             l \in list_of_set(locations_of(session)),
             p \in list_of_set(people_of(session))}

\* ----- the inputs ------------------------------------------------------------
\* the value of row when no normalizer is at work
NoRow == [source |-> "none"]

\* the value of result before run_engine_for_date has returned
NoResult ==
    [target_date |-> NoneTime, total_events |-> 0, num_sessions |-> 0,
     memory_story |-> <<>>, caregiver_summary |-> <<>>]

\* Event ids are unique: the i-th event of the caller's list has id i.
TimedEvent(i, t) ==
    [id |-> i, timestamp_start |-> t, timestamp_end |-> NoneTime,
     title |-> "Walk", people |-> <<>>, location |-> NoneLoc]

Names == {"Ann", "Bob"}

BasePayload == [has_end |-> FALSE, title |-> "Walk", people |-> <<>>, location |-> NoneLoc]

Payloads ==
    {BasePayload}
    \cup {[BasePayload EXCEPT !.location = l] : l \in {"", "Home", "Clinic"}}
    \cup {[BasePayload EXCEPT !.people = p] : p \in {<<"Ann">>, <<"Bob", "Ann">>}}
    \cup {[BasePayload EXCEPT !.title = t] : t \in {"", "Call"}}
    \cup {[BasePayload EXCEPT !.has_end = TRUE]}
    \cup {[has_end |-> TRUE, title |-> "Call", people |-> <<"Ann">>, location |-> "Home"]}

\* the i-th event of a time-sorted list carrying payload p: the starts are
\* 0, 1, 3, 4, 6, ... (gaps of one and two ticks alternate)
PayloadStart(i) == (i - 1) + ((i - 1) \div 2)

PayloadEvent(i, p) ==
    [id |-> i, timestamp_start |-> PayloadStart(i),
     timestamp_end |-> IF p.has_end THEN PayloadStart(i) + 1 ELSE NoneTime,
     title |-> p.title, people |-> p.people, location |-> p.location]

TimedLists ==
    UNION {{[i \in 1..n |-> TimedEvent(i, f[i])] : f \in [1..n -> Times]} :
             n \in 0..MaxEvents}

PayloadLists ==
    UNION {{[i \in 1..n |-> PayloadEvent(i, f[i])] : f \in [1..n -> Payloads]} :
             n \in 1..MaxEvents}

Init ==
    /\ events \in TimedLists \cup PayloadLists
    /\ target_date \in Dates
    /\ gap_minutes \in Gaps
    /\ pc = "init"
    /\ day_events = <<>>
    /\ group_input = <<>>
    /\ sessions = <<>>
    /\ summ_args = <<>>
    /\ summaries = <<>>
    /\ raised = ""
    /\ raw_text = <<>>
    /\ sanitized = <<>>
    /\ resanitized = <<>>
    /\ result = NoResult
    /\ story_calls = 0
    /\ row = NoRow
    /\ wider_gap = 0
    /\ wider_sessions = <<>>

\* ----- the caller's list after a call ------------------------------------------
\* variant: the filter sorts the caller's list in place
input_sorted_in_place(evs, d) == sorted_by_start(evs)

\* filter_events_for_day builds its result with a comprehension and sorted(),
\* both new lists; the list passed in is not assigned to
input_after_filter(evs, d) == evs

\* group_into_sessions only reads its argument and appends to its own lists
input_after_group(evs, gap_min) == evs

\* summarize_session only reads the session
input_after_summarize(session) == session

\* ----- the operations ----------------------------------------------------------
\* day_events = filter_events_for_day(all_events, target_date)
FilterDay ==
    /\ pc = "init"
    /\ day_events' = filter_events_for_day(events, target_date)
    /\ events' = input_after_filter(events, target_date)
    /\ pc' = "filtered"
    /\ UNCHANGED <<target_date, gap_minutes, group_input, sessions,
                   summ_args, summaries, raised>>
    /\ UNCHANGED other_vars

\* sessions = group_into_sessions(day_events, gap_minutes=gap_minutes)
GroupDay ==
    /\ pc = "filtered"
    /\ group_input' = day_events
    /\ sessions' = group_into_sessions(day_events, gap_minutes)
    /\ day_events' = input_after_group(day_events, gap_minutes)
    /\ pc' = "grouped"
    /\ UNCHANGED <<events, target_date, gap_minutes, summ_args,
                   summaries, raised>>
    /\ UNCHANGED other_vars

\* group_into_sessions called on the caller's own list, without the day filter
GroupDirect ==
    /\ pc = "init"
    /\ group_input' = events
    /\ sessions' = group_into_sessions(events, gap_minutes)
    /\ events' = input_after_group(events, gap_minutes)
    /\ pc' = "grouped"
    /\ UNCHANGED <<target_date, gap_minutes, day_events, summ_args,
                   summaries, raised>>
    /\ UNCHANGED other_vars

\* one call summarize_session(session): a summary is returned or IndexError raised
Summarize(session) ==
    /\ summ_args' = Append(summ_args, session)
    /\ IF summarize_session(session) = {}
       THEN /\ raised' = "IndexError"
            /\ UNCHANGED summaries
       ELSE /\ \E s \in summarize_session(session) : summaries' = Append(summaries, s)
            /\ UNCHANGED raised

\* summaries = [summarize_session(s) for s in sessions], one call at a time
SummarizeNext ==
    /\ pc = "grouped"
    /\ raised = ""
    /\ Len(summ_args) < Len(sessions)
    /\ Summarize(sessions[Len(summ_args) + 1])
    /\ sessions' = [sessions EXCEPT ![Len(summ_args) + 1] = input_after_summarize(@)]
    /\ UNCHANGED <<events, target_date, gap_minutes, pc, day_events,
                   group_input>>
    /\ UNCHANGED other_vars

\* summarize_session called on the caller's own list taken as one session
SummarizeDirect ==
    /\ pc = "init"
    /\ Summarize(events)
    /\ events' = input_after_summarize(events)
    /\ pc' = "called"
    /\ UNCHANGED <<target_date, gap_minutes, day_events, group_input,
                   sessions>>
    /\ UNCHANGED other_vars

Next ==
    \/ FilterDay
    \/ GroupDay
    \/ GroupDirect
    \/ SummarizeNext
    \/ SummarizeDirect

Spec == Init /\ [][Next]_vars

\* ----- text: a str is the sequence of its characters --------------------------
UpperCase == <<"A", "B", "C", "D", "E", "F", "G", "H", "I", "J", "K", "L", "M", "N", "O", "P", "Q", "R", "S", "T", "U", "V", "W", "X", "Y", "Z">>
LowerCase == <<"a", "b", "c", "d", "e", "f", "g", "h", "i", "j", "k", "l", "m", "n", "o", "p", "q", "r", "s", "t", "u", "v", "w", "x", "y", "z">>
Digits == {"0", "1", "2", "3", "4", "5", "6", "7", "8", "9"}
Letters == {UpperCase[i] : i \in 1..Len(UpperCase)} \cup {LowerCase[i] : i \in 1..Len(LowerCase)}

\* str.lower() and re.IGNORECASE, one character at a time
LowerTable ==
    [c \in {UpperCase[i] : i \in 1..Len(UpperCase)} |->
        LowerCase[CHOOSE i \in 1..Len(UpperCase) : UpperCase[i] = c]]

lower_char(c) == IF c \in DOMAIN LowerTable THEN LowerTable[c] ELSE c

lower(text) == only({[i \in 1..Len(t) |-> lower_char(t[i])] : t \in {text}})

\* the regular expression classes \s, \d and \w
is_space(c) == c \in {" ", "\n", "\t"}
is_digit(c) == c \in Digits
is_word(c) == c \in Letters \cup Digits \cup {"_"}

\* \b at the gap before text[p] (p = Len(text) + 1 is the end of the text)
word_boundary(text, p) ==
    LET before == p > 1 /\ is_word(text[p - 1])
        after  == p <= Len(text) /\ is_word(text[p])
    IN  before # after

\* the literal lit (lower case) matches at text[p], letter case ignored
literal_at(text, p, lit) ==
    /\ p + Len(lit) - 1 <= Len(text)
    /\ \A i \in 1..Len(lit) : lower_char(text[p + i - 1]) = lit[i]

\* x in text, for str
contains(text, lit) ==
    \E t \in {text}, l \in {lit} : \E p \in 1..(Len(t) - Len(l) + 1) : literal_at(t, p, l)

in_clause(c) == c \notin {".", "!", "?"}

\* the character classes of the patterns: \s, \d and [^.!?]
in_class(class, c) ==
    CASE class = "\\s" -> is_space(c)
      [] class = "\\d" -> is_digit(c)
      [] class = "[^.!?]" -> in_clause(c)

\* the first position from p on that does not hold a character of the class
\* (Len(text) + 1 when every character up to the end is of the class)
skip_while(text, p, class) ==
    CHOOSE q \in p..(Len(text) + 1) :
        /\ \A m \in p..(q - 1) : in_class(class, text[m])
        /\ (q <= Len(text) => ~in_class(class, text[q]))

skip_spaces(text, p) == skip_while(text, p, "\\s")

skip_digits(text, p) == skip_while(text, p, "\\d")

skip_clause(text, p) == skip_while(text, p, "[^.!?]")

\* A pattern is matched at position p: the result is the position after the
\* match, or 0 when there is none.  The classes of neighbouring pieces are
\* disjoint, so greedy matching never has to give characters back.

\* r"\b~?\s*\d+\s*bpm\b"
bpm_pattern(text, p) ==
    LET a == IF p <= Len(text) /\ text[p] = "~" THEN p + 1 ELSE p
        b == skip_spaces(text, a)
        c == skip_digits(text, b)
        d == skip_spaces(text, c)
    IN  IF /\ word_boundary(text, p)
           /\ c > b
           /\ literal_at(text, d, <<"b", "p", "m">>)
           /\ word_boundary(text, d + 3)
        THEN d + 3 ELSE 0

\* r"\b\d+\s*steps\b"
steps_pattern(text, p) ==
    LET c == skip_digits(text, p)
        d == skip_spaces(text, c)
    IN  IF /\ word_boundary(text, p)
           /\ c > p
           /\ literal_at(text, d, <<"s", "t", "e", "p", "s">>)
           /\ word_boundary(text, d + 5)
        THEN d + 5 ELSE 0

\* r"vital signs[^\.!?]*[\.!?]?"
vital_signs_pattern(text, p) ==
    IF literal_at(text, p, <<"v", "i", "t", "a", "l", " ", "s", "i", "g", "n", "s">>)
    THEN LET e == skip_clause(text, p + 11)
         IN  IF e <= Len(text) THEN e + 1 ELSE e
    ELSE 0

\* r"\s{2,}"
spaces_pattern(text, p) ==
    LET e == skip_spaces(text, p) IN IF e >= p + 2 THEN e ELSE 0

\* re.sub(pattern, repl, text): the matches are found from left to right, each
\* search starting where the last match ended; match_at(pattern, text, p) is
\* the match at p.  The text from p on is rewritten and added to acc.
match_at(pattern, text, p) ==
    CASE pattern = "bpm" -> bpm_pattern(text, p)
      [] pattern = "steps" -> steps_pattern(text, p)
      [] pattern = "vital signs" -> vital_signs_pattern(text, p)
      [] pattern = "spaces" -> spaces_pattern(text, p)

RECURSIVE re_sub(_, _, _, _, _)
re_sub(pattern, repl, text, p, acc) ==
    only({only({IF found = {} THEN a \o SubSeq(t, from, Len(t))
                ELSE only({re_sub(pattern, repl, t, match_at(pattern, t, q),
                                  a \o SubSeq(t, from, q - 1) \o repl) :
                           q \in {CHOOSE m \in found : \A n \in found : m <= n}}) :
                found \in {{q \in from..Len(t) : match_at(pattern, t, q) > q}}}) :
          t \in {text}, from \in {p}, a \in {acc}})

\* re.compile(re.escape(term), re.IGNORECASE).sub("", text)
RECURSIVE remove_term_from(_, _, _, _)
remove_term_from(text, term, p, acc) ==
    only({only({IF found = {} THEN a \o SubSeq(t, from, Len(t))
                ELSE only({remove_term_from(t, term, q + Len(term),
                                            a \o SubSeq(t, from, q - 1)) :
                           q \in {CHOOSE m \in found : \A n \in found : m <= n}}) :
                found \in {{q \in from..Len(t) : literal_at(t, q, term)}}}) :
          t \in {text}, from \in {p}, a \in {acc}})

remove_term(text, term) == remove_term_from(text, term, 1, <<>>)

_FORBIDDEN_HEALTH_TERMS == <<
    <<"h", "e", "a", "r", "t", " ", "r", "a", "t", "e">>,
    <<"h", "r">>,
    <<"b", "p", "m">>,
    <<"b", "e", "a", "t", "s", " ", "p", "e", "r", " ", "m", "i", "n", "u", "t", "e">>,
    <<"s", "t", "e", "p", "s">>,
    <<"s", "t", "e", "p", " ", "c", "o", "u", "n", "t">>,
    <<"s", "t", "r", "e", "s", "s">>
>>

\* for term in _FORBIDDEN_HEALTH_TERMS: if term in lowered: text = pattern.sub("", text)
RECURSIVE remove_forbidden_terms(_, _)
remove_forbidden_terms(text, k) ==
    IF k > Len(_FORBIDDEN_HEALTH_TERMS) THEN text
    ELSE only({IF contains(lower(t), term)
               THEN remove_forbidden_terms(remove_term(t, term), k + 1)
               ELSE remove_forbidden_terms(t, k + 1) :
               t \in {text}, term \in {_FORBIDDEN_HEALTH_TERMS[k]}})

\* str.strip(): the text between its first and its last non-space character
strip(text) ==
    only({only({IF solid = {} THEN <<>>
                ELSE SubSeq(t, CHOOSE m \in solid : \A n \in solid : m <= n,
                               CHOOSE m \in solid : \A n \in solid : m >= n) :
                solid \in {{i \in 1..Len(t) : ~is_space(t[i])}}}) :
          t \in {text}})

_sanitize_text(text) ==
    IF text = <<>> THEN text
    ELSE LET t1 == re_sub("bpm", <<>>, text, 1, <<>>)
             t2 == re_sub("steps", <<>>, t1, 1, <<>>)
             t3 == re_sub("vital signs", <<>>, t2, 1, <<>>)
             t4 == remove_forbidden_terms(t3, 1)
             t5 == re_sub("spaces", <<" ">>, t4, 1, <<>>)
         IN  strip(t5)

\* ----- the texts handed to the sanitizer ---------------------------------------
\* A text is up to MaxFragments fragments, one after the other.
Fragments == {
    <<"h">>,
    <<"r">>,
    <<"h", "r">>,
    <<"H", "R">>,
    <<" ">>,
    <<"7">>,
    <<"~">>,
    <<"b", "p", "m">>,
    <<"s", "t", "e", "p", "s">>,
    <<"s", "t", "r", "e", "s", "s">>,
    <<"v", "i", "t", "a", "l", " ", "s", "i", "g", "n", "s">>,
    <<".">>,
    <<"C">>,
    <<"i", "s">>
}

TextInputs ==
    UNION {{Flatten(f) : f \in [1..n -> Fragments]} : n \in 0..MaxFragments}

InitSanitize ==
    /\ raw_text \in TextInputs
    /\ sanitized = <<>>
    /\ resanitized = <<>>
    /\ pc = "text"
    /\ events = <<>>
    /\ target_date = 0
    /\ gap_minutes = 0
    /\ day_events = <<>>
    /\ group_input = <<>>
    /\ sessions = <<>>
    /\ summ_args = <<>>
    /\ summaries = <<>>
    /\ raised = ""
    /\ result = NoResult
    /\ story_calls = 0
    /\ row = NoRow
    /\ wider_gap = 0
    /\ wider_sessions = <<>>

\* sanitized = _sanitize_text(raw_text)
SanitizeText ==
    /\ pc = "text"
    /\ sanitized' = _sanitize_text(raw_text)
    /\ pc' = "sanitized"
    /\ UNCHANGED <<raw_text, resanitized, events, target_date, gap_minutes, day_events,
                   group_input, sessions, summ_args, summaries, raised>>
    /\ UNCHANGED <<engine_vars, ingest_vars, regroup_vars>>

\* the sanitizer applied to its own output
SanitizeAgain ==
    /\ pc = "sanitized"
    /\ resanitized' = _sanitize_text(sanitized)
    /\ pc' = "resanitized"
    /\ UNCHANGED <<raw_text, sanitized, events, target_date, gap_minutes, day_events,
                   group_input, sessions, summ_args, summaries, raised>>
    /\ UNCHANGED <<engine_vars, ingest_vars, regroup_vars>>

NextSanitize ==
    \/ SanitizeText
    \/ SanitizeAgain

SpecSanitize == InitSanitize /\ [][NextSanitize]_vars

\* ----- rendering of the model's values as text -------------------------------
\* the strings the events carry, spelled out as character sequences
Spelling ==
    ("" :> <<>>)
    @@ ("Walk" :> <<"W", "a", "l", "k">>)
    @@ ("Call" :> <<"C", "a", "l", "l">>)
    @@ ("Home" :> <<"H", "o", "m", "e">>)
    @@ ("Clinic" :> <<"C", "l", "i", "n", "i", "c">>)
    @@ ("Ann" :> <<"A", "n", "n">>)
    @@ ("Bob" :> <<"B", "o", "b">>)
    @@ ("Chris" :> <<"C", "h", "r", "i", "s">>)
    @@ ("Stress Clinic" :> <<"S", "t", "r", "e", "s", "s", " ", "C", "l", "i", "n", "i", "c">>)
    @@ ("Health check | HR ~65 bpm | 2500 steps" :> <<"H", "e", "a", "l", "t", "h", " ", "c", "h", "e", "c", "k", " ", "|", " ", "H", "R", " ", "~", "6", "5", " ", "b", "p", "m", " ", "|", " ", "2", "5", "0", "0", " ", "s", "t", "e", "p", "s">>)
    @@ ("c1" :> <<"c", "1">>)
    @@ ("k1" :> <<"k", "1">>)
    @@ ("Lunch" :> <<"L", "u", "n", "c", "h">>)
    @@ ("Phone call" :> <<"P", "h", "o", "n", "e", " ", "c", "a", "l", "l">>)
    @@ ("Phone call from Ann" :> <<"P", "h", "o", "n", "e", " ", "c", "a", "l", "l", " ", "f", "r", "o", "m", " ", "A", "n", "n">>)
    @@ ("Phone call to Ann" :> <<"P", "h", "o", "n", "e", " ", "c", "a", "l", "l", " ", "t", "o", " ", "A", "n", "n">>)
    @@ ("Phone call with Ann" :> <<"P", "h", "o", "n", "e", " ", "c", "a", "l", "l", " ", "w", "i", "t", "h", " ", "A", "n", "n">>)
    @@ ("incoming" :> <<"i", "n", "c", "o", "m", "i", "n", "g">>)
    @@ ("outgoing" :> <<"o", "u", "t", "g", "o", "i", "n", "g">>)
    @@ ("12" :> <<"1", "2">>)

str(s) == Spelling[s]

DigitChars == <<"0", "1", "2", "3", "4", "5", "6", "7", "8", "9">>

\* str(n) for 0 <= n
RECURSIVE str_int(_)
str_int(n) ==
    IF n < 10 THEN <<DigitChars[n + 1]>>
    ELSE Append(str_int(n \div 10), DigitChars[(n % 10) + 1])

\* a number printed with two digits (%H, %M, %d)
two_digits(n) == <<DigitChars[((n \div 10) % 10) + 1], DigitChars[(n % 10) + 1]>>

\* A day of the model has DayLen ticks; the clock time of a tick is its share
\* of the 1440 minutes of a day.
minute_of_day(t) == ((t % DayLen) * 1440) \div DayLen
hour(t) == minute_of_day(t) \div 60
minute(t) == minute_of_day(t) % 60

\* dt.strftime("%H:%M")
strftime(t) == two_digits(hour(t)) \o <<":">> \o two_digits(minute(t))

\* target_date.isoformat(): the model's day d is the (d+1)-th of January 2025
isoformat(d) == <<"2", "0", "2", "5", "-", "0", "1", "-">> \o two_digits(d + 1)

\* sep.join(items)
RECURSIVE join(_, _)
join(sep, items) ==
    only({IF its = <<>> THEN <<>>
          ELSE IF Len(its) = 1 THEN its[1]
          ELSE its[1] \o sep \o join(sep, Tail(its)) :
          its \in {items}})

\* ----- story_generator.py -----------------------------------------------------
_time_period(t) ==
    IF hour(t) < 12 THEN <<"i", "n", " ", "t", "h", "e", " ", "m", "o", "r", "n", "i", "n", "g">>
    ELSE IF hour(t) < 17 THEN <<"i", "n", " ", "t", "h", "e", " ", "a", "f", "t", "e", "r", "n", "o", "o", "n">>
    ELSE <<"i", "n", " ", "t", "h", "e", " ", "e", "v", "e", "n", "i", "n", "g">>

\* re.split(r"[|,;/]", t)
\* the pieces between the separators, the empty ones included
re_split(txt) ==
    only({only({LET cut(k) == IF k = 0 THEN 0
                              ELSE IF k > Cardinality(seps) THEN Len(t) + 1
                              ELSE CHOOSE p \in seps : Cardinality({q \in seps : q < p}) = k - 1
                IN  [k \in 1..(Cardinality(seps) + 1) |-> SubSeq(t, cut(k - 1) + 1, cut(k) - 1)] :
                seps \in {{p \in 1..Len(t) : t[p] \in {"|", ",", ";", "/"}}}}) :
          t \in {txt}})

STOP_WORDS == {<<"l", "o", "w">>, <<"m", "e", "d", "i", "u", "m">>, <<"h", "i", "g", "h">>, <<"n", "o", "r", "m", "a", "l">>, <<"~">>}

CLINICAL_MARKS == <<<<"b", "p", "m">>, <<"h", "r", " ">>, <<"h", "r", "~">>, <<"s", "t", "r", "e", "s", "s">>, <<"s", "t", "e", "p", "s">>>>

\* the tests of the inner loop of _clean_titles_for_story on one stripped segment
keep_segment(seg) ==
    /\ seg # <<>>
    /\ lower(seg) \notin STOP_WORDS
    /\ ~\E k \in 1..Len(CLINICAL_MARKS) : contains(lower(seg), CLINICAL_MARKS[k])
    /\ ~\E i \in 1..Len(seg) : is_digit(seg[i])
    /\ \E i \in 1..Len(seg) : seg[i] \in Letters
    /\ Len(seg) >= 3

\* the segments one title contributes
title_segments(t) ==
    only({SelectSeq([i \in 1..Len(pieces) |-> strip(pieces[i])], keep_segment) :
          pieces \in {re_split(_sanitize_text(t))}})

\* deduplicate while preserving order
RECURSIVE unique_in_order(_)
unique_in_order(items) ==
    IF items = <<>> THEN <<>>
    ELSE only({IF \E i \in 1..Len(rest) : rest[i] = x THEN rest ELSE Append(rest, x) :
               rest \in {unique_in_order(SubSeq(items, 1, Len(items) - 1))},
               x \in {items[Len(items)]}})

first_n(items, n) == SubSeq(items, 1, IF Len(items) < n THEN Len(items) ELSE n)

\* raw_titles: a sequence of texts
_clean_titles_for_story(raw_titles) ==
    only({IF segments = <<>> THEN <<>>
          ELSE join(<<",", " ">>, first_n(unique_in_order(segments), 3)) :
          segments \in {Flatten([i \in 1..Len(raw_titles) |-> title_segments(raw_titles[i])])}})

\* the texts of a summary's string lists
texts(items) == [i \in 1..Len(items) |-> str(items[i])]

\* one sentence of the narrative, for the summary s
moment_sentence(s) ==
    only({only({<<"D", "u", "r", "i", "n", "g", " ", "o", "n", "e", " ", "m", "o", "m", "e", "n", "t", " ">> \o _time_period(s.start) \o <<",", " ", "b", "e", "t", "w", "e", "e", "n", " ">> \o strftime(s.start)
                \o <<" ", "a", "n", "d", " ">> \o strftime(s.end) \o <<",", " ", "y", "o", "u", " ", "s", "p", "e", "n", "t", " ", "t", "i", "m", "e">>
                \o loc_phrase \o people_phrase \o act_phrase \o <<".">> :
                loc_phrase \in {IF locs # <<>> THEN <<" ", "a", "t", " ">> \o locs ELSE <<" ", "i", "n", " ", "a", " ", "f", "a", "m", "i", "l", "i", "a", "r", " ", "p", "l", "a", "c", "e">>},
                people_phrase \in {IF people # <<>> THEN <<" ", "w", "i", "t", "h", " ">> \o people ELSE <<>>},
                act_phrase \in {IF titles_str # <<>> THEN <<" ", "w", "h", "i", "l", "e", " ", "f", "o", "c", "u", "s", "i", "n", "g", " ", "o", "n", " ">> \o lower(titles_str) ELSE <<>>}}) :
          locs \in {IF s.locations # <<>> THEN join(<<",", " ">>, texts(s.locations)) ELSE <<>>},
          people \in {IF s.people # <<>> THEN join(<<",", " ">>, texts(s.people)) ELSE <<>>},
          titles_str \in {_clean_titles_for_story(texts(s.titles))}})

_fallback_narrative(session_summaries, target_date_str) ==
    IF session_summaries = <<>>
    THEN <<"O", "n", "l", "y", " ", "a", " ", "f", "e", "w", " ", "s", "m", "a", "l", "l", " ", "m", "o", "m", "e", "n", "t", "s", " ", "w", "e", "r", "e", " ", "r", "e", "c", "o", "r", "d", "e", "d", " ", "o", "n", " ">> \o target_date_str \o <<",", " ", "b", "u", "t", " ", "i", "t", " ", "w", "a", "s", " ", "s", "t", "i", "l", "l", " ", "y", "o", "u", "r", " ", "d", "a", "y", ",", " ", "s", "h", "a", "p", "e", "d", " ", "b", "y", " ", "y", "o", "u", "r", " ", "o", "w", "n", " ", "r", "h", "y", "t", "h", "m", " ", "a", "n", "d", " ", "c", "h", "o", "i", "c", "e", "s", ".">>
    ELSE LET shown == first_n(session_summaries, 4)
         IN  only({<<"O", "n", " ">> \o target_date_str \o <<",", " ", "a", " ", "f", "e", "w", " ", "k", "e", "y", " ", "m", "o", "m", "e", "n", "t", "s", " ", "f", "r", "o", "m", " ", "y", "o", "u", "r", " ", "d", "a", "y", " ", "w", "e", "r", "e", " ", "r", "e", "c", "o", "r", "d", "e", "d", ".">> \o <<" ">> \o body
                   \o <<"\n", "\n">> \o <<"E", "v", "e", "n", " ", "t", "h", "o", "u", "g", "h", " ", "t", "h", "e", "s", "e", " ", "n", "o", "t", "e", "s", " ", "d", "o", " ", "n", "o", "t", " ", "c", "a", "p", "t", "u", "r", "e", " ", "e", "v", "e", "r", "y", " ", "d", "e", "t", "a", "i", "l", ",", " ", "t", "h", "e", "y", " ", "s", "t", "i", "l", "l", " ", "t", "r", "a", "c", "e", " ", "a", " ", "g", "e", "n", "t", "l", "e", " ", "o", "u", "t", "l", "i", "n", "e", " ", "o", "f", " ", "h", "o", "w", " ", "y", "o", "u", " ", "m", "o", "v", "e", "d", " ", "t", "h", "r", "o", "u", "g", "h", " ", "y", "o", "u", "r", " ", "d", "a", "y", ".">> :
                   body \in {join(<<" ">>, [i \in 1..Len(shown) |-> moment_sentence(shown[i])])}})

HEALTH_WORDS == <<<<"h", "e", "a", "l", "t", "h">>, <<"d", "o", "c", "t", "o", "r">>, <<"c", "l", "i", "n", "i", "c">>, <<"h", "o", "s", "p", "i", "t", "a", "l">>, <<"a", "p", "p", "o", "i", "n", "t", "m", "e", "n", "t">>, <<"c", "h", "e", "c", "k">>>>
MESSAGE_WORDS == <<<<"m", "e", "s", "s", "a", "g", "e">>, <<"w", "h", "a", "t", "s", "a", "p", "p">>, <<"t", "e", "x", "t">>>>

title_has_any(title, words) ==
    \E k \in 1..Len(words) : contains(lower(title), words[k])

\* _unique(items): the non-empty items, each once, in order of first appearance
_unique(items) == unique_in_order(SelectSeq(items, LAMBDA x : x # ""))

_rule_based_caregiver_summary(session_summaries) ==
    IF session_summaries = <<>>
    THEN <<"-", " ", "N", "o", " ", "s", "p", "e", "c", "i", "f", "i", "c", " ", "a", "c", "t", "i", "v", "i", "t", "i", "e", "s", " ", "w", "e", "r", "e", " ", "r", "e", "c", "o", "r", "d", "e", "d", " ", "f", "o", "r", " ", "t", "h", "i", "s", " ", "d", "a", "y", ".", "\n", "-", " ", "C", "o", "n", "t", "i", "n", "u", "e", " ", "g", "e", "n", "t", "l", "e", " ", "c", "h", "e", "c", "k", "-", "i", "n", "s", " ", "a", "s", " ", "u", "s", "u", "a", "l", ".">>
    ELSE LET n             == Len(session_summaries)
             all_locations == Flatten([i \in 1..n |-> session_summaries[i].locations])
             all_people    == Flatten([i \in 1..n |-> session_summaries[i].people])
             all_titles    == texts(Flatten([i \in 1..n |-> session_summaries[i].titles]))
             has_health    == \E i \in 1..Len(all_titles) : title_has_any(all_titles[i], HEALTH_WORDS)
             has_messages  == \E i \in 1..Len(all_titles) : title_has_any(all_titles[i], MESSAGE_WORDS)
             has_calls     == \E i \in 1..Len(all_titles) : contains(lower(all_titles[i]), <<"c", "a", "l", "l">>)
             locs_unique   == _unique(all_locations)
             people_unique == _unique(all_people)
             comms_parts   == (IF has_calls THEN <<<<"p", "h", "o", "n", "e", " ", "c", "a", "l", "l", "s">>>> ELSE <<>>)
                                \o (IF has_messages THEN <<<<"m", "e", "s", "s", "a", "g", "e", "s">>>> ELSE <<>>)
             bullets ==
                 <<<<"-", " ", "T", "h", "e", "r", "e", " ", "w", "e", "r", "e", " ">> \o str_int(n) \o <<" ", "r", "e", "c", "o", "r", "d", "e", "d", " ", "a", "c", "t", "i", "v", "i", "t", "y", " ", "p", "e", "r", "i", "o", "d", "s", " ", "t", "o", "d", "a", "y", ".">>>>
                 \o (IF locs_unique # <<>>
                     THEN <<<<"-", " ", "A", "c", "t", "i", "v", "i", "t", "i", "e", "s", " ", "t", "o", "o", "k", " ", "p", "l", "a", "c", "e", " ", "a", "t", " ", "l", "o", "c", "a", "t", "i", "o", "n", "s", " ", "s", "u", "c", "h", " ", "a", "s", " ">> \o join(<<",", " ">>, texts(first_n(locs_unique, 4))) \o <<".">>>>
                     ELSE <<>>)
                 \o (IF people_unique # <<>>
                     THEN <<<<"-", " ", "T", "i", "m", "e", " ", "w", "a", "s", " ", "s", "p", "e", "n", "t", " ", "w", "i", "t", "h", " ">> \o join(<<",", " ">>, texts(first_n(people_unique, 4))) \o <<".">>>>
                     ELSE <<>>)
                 \o (IF comms_parts # <<>>
                     THEN <<<<"-", " ", "T", "h", "e", " ", "l", "o", "g", " ", "f", "o", "r", " ", "t", "h", "i", "s", " ", "d", "a", "y", " ", "i", "n", "c", "l", "u", "d", "e", "s", " ">> \o join(<<" ", "a", "n", "d", " ">>, comms_parts) \o <<" ", "w", "i", "t", "h", " ", "o", "t", "h", "e", "r", "s", ".">>>>
                     ELSE <<>>)
                 \o (IF has_health THEN <<<<"-", " ", "S", "o", "m", "e", " ", "e", "n", "t", "r", "i", "e", "s", " ", "r", "e", "l", "a", "t", "e", " ", "t", "o", " ", "h", "e", "a", "l", "t", "h", " ", "c", "h", "e", "c", "k", "s", " ", "o", "r", " ", "a", "p", "p", "o", "i", "n", "t", "m", "e", "n", "t", "s", " ", "e", "a", "r", "l", "i", "e", "r", " ", "i", "n", " ", "t", "h", "e", " ", "d", "a", "y", " ", "(", "w", "i", "t", "h", "o", "u", "t", " ", "d", "e", "t", "a", "i", "l", "e", "d", " ", "m", "e", "a", "s", "u", "r", "e", "m", "e", "n", "t", "s", ")", ".">>>> ELSE <<>>)
                 \o <<<<"-", " ", "C", "o", "n", "t", "i", "n", "u", "e", " ", "g", "e", "n", "t", "l", "e", " ", "c", "h", "e", "c", "k", "-", "i", "n", "s", " ", "a", "c", "c", "o", "r", "d", "i", "n", "g", " ", "t", "o", " ", "t", "h", "e", " ", "u", "s", "u", "a", "l", " ", "r", "o", "u", "t", "i", "n", "e", ".">>>>
         IN  only({join(<<"\n">>, [i \in 1..Len(b) |-> _sanitize_text(b[i])]) : b \in {bullets}})

generate_ai_story_with_ollama(session_summaries, target_date_str) ==
    [memory_story |-> _fallback_narrative(session_summaries, target_date_str),
     caregiver_summary |-> _rule_based_caregiver_summary(session_summaries)]

\* ----- run_engine_for_date ----------------------------------------------------
\* the dict returned when the day has no events (per_source_counts, which is
\* computed from the loaders' lists alone, is left out)
no_events_result(d) ==
    [target_date |-> d, total_events |-> 0, num_sessions |-> 0,
     memory_story |-> <<"N", "o", " ", "e", "v", "e", "n", "t", "s", " ", "w", "e", "r", "e", " ", "f", "o", "u", "n", "d", " ", "f", "o", "r", " ">> \o isoformat(d) \o <<".", " ", "T", "h", "e", "r", "e", " ", "i", "s", " ", "n", "o", "t", "h", "i", "n", "g", " ", "t", "o", " ", "r", "e", "c", "o", "n", "s", "t", "r", "u", "c", "t", " ", "f", "o", "r", " ", "t", "h", "i", "s", " ", "d", "a", "y", ".">>,
     caregiver_summary |-> <<"-", " ", "N", "o", " ", "s", "p", "e", "c", "i", "f", "i", "c", " ", "a", "c", "t", "i", "v", "i", "t", "i", "e", "s", " ", "w", "e", "r", "e", " ", "r", "e", "c", "o", "r", "d", "e", "d", " ", "f", "o", "r", " ", "t", "h", "i", "s", " ", "d", "a", "t", "e", ".", "\n", "-", " ", "C", "o", "n", "t", "i", "n", "u", "e", " ", "g", "e", "n", "t", "l", "e", " ", "c", "h", "e", "c", "k", "-", "i", "n", "s", " ", "a", "c", "c", "o", "r", "d", "i", "n", "g", " ", "t", "o", " ", "t", "h", "e", " ", "u", "s", "u", "a", "l", " ", "r", "o", "u", "t", "i", "n", "e", ".">>]

\* variant: num_sessions taken from the day's events
engine_result_counting_events(d, day, sess, story) ==
    [target_date |-> d, total_events |-> Len(day), num_sessions |-> Len(day),
     memory_story |-> story.memory_story,
     caregiver_summary |-> story.caregiver_summary]

\* the dict returned after the story was generated
engine_result(d, day, sess, story) ==
    [target_date |-> d, total_events |-> Len(day), num_sessions |-> Len(sess),
     memory_story |-> story.memory_story,
     caregiver_summary |-> story.caregiver_summary]

EnginePayloads == {
    BasePayload,
    [has_end |-> TRUE, title |-> "Health check | HR ~65 bpm | 2500 steps",
     people |-> <<>>, location |-> NoneLoc],
    [has_end |-> FALSE, title |-> "Call", people |-> <<"Chris">>,
     location |-> "Stress Clinic"],
    [has_end |-> TRUE, title |-> "", people |-> <<"Ann">>, location |-> "Home"]}

EngineLists ==
    UNION {{[i \in 1..n |-> PayloadEvent(i, f[i])] : f \in [1..n -> EnginePayloads]} :
             n \in 0..MaxEngineEvents}

InitEngine ==
    /\ events \in EngineLists
    /\ target_date \in Dates
    /\ gap_minutes \in Gaps
    /\ pc = "init"
    /\ day_events = <<>>
    /\ group_input = <<>>
    /\ sessions = <<>>
    /\ summ_args = <<>>
    /\ summaries = <<>>
    /\ raised = ""
    /\ raw_text = <<>>
    /\ sanitized = <<>>
    /\ resanitized = <<>>
    /\ result = NoResult
    /\ story_calls = 0
    /\ row = NoRow
    /\ wider_gap = 0
    /\ wider_sessions = <<>>

\* if not day_events: return {...}
ReturnNoEvents ==
    /\ pc = "filtered"
    /\ day_events = <<>>
    /\ result' = no_events_result(target_date)
    /\ pc' = "returned"
    /\ UNCHANGED <<events, target_date, gap_minutes, day_events, group_input,
                   sessions, summ_args, summaries, raised, story_calls>>
    /\ UNCHANGED <<text_vars, ingest_vars, regroup_vars>>

\* the grouping step of run_engine_for_date, reached with a non-empty day
EngineGroup ==
    /\ day_events # <<>>
    /\ GroupDay

\* result = generate_ai_story_with_ollama(summaries, target_date.isoformat())
\* and the return of the dict
GenerateStory ==
    /\ pc = "grouped"
    /\ raised = ""
    /\ Len(summ_args) = Len(sessions)
    /\ story_calls' = story_calls + 1
    /\ result' = engine_result(target_date, day_events, sessions,
                     generate_ai_story_with_ollama(summaries, isoformat(target_date)))
    /\ pc' = "returned"
    /\ UNCHANGED <<events, target_date, gap_minutes, day_events, group_input,
                   sessions, summ_args, summaries, raised>>
    /\ UNCHANGED <<text_vars, ingest_vars, regroup_vars>>

NextEngine ==
    \/ FilterDay
    \/ ReturnNoEvents
    \/ EngineGroup
    \/ SummarizeNext
    \/ GenerateStory

SpecEngine == InitEngine /\ [][NextEngine]_vars

\* ----- ingest_calendar.py, ingest_calls.py -------------------------------------
\* the text that "%Y-%m-%d %H:%M" reads as the tick t
timestamp_text(t) == isoformat(date(t)) \o <<" ">> \o strftime(t)

\* datetime.strptime(text, "%Y-%m-%d %H:%M"): the set holding the tick read,
\* empty when ValueError is raised
strptime(text) == {t \in Times : timestamp_text(t) = text}

\* text.split(sep) for a one-character separator
split(text, sep) ==
    LET cuts == {0} \cup {i \in 1..Len(text) : text[i] = sep} \cup {Len(text) + 1}
        nth(k) == CHOOSE i \in cuts : Cardinality({j \in cuts : j < i}) = k - 1
    IN  [k \in 1..(Cardinality(cuts) - 1) |-> SubSeq(text, nth(k) + 1, nth(k + 1) - 1)]

\* the str value whose characters are text
intern(text) == CHOOSE s \in DOMAIN Spelling : Spelling[s] = text

\* [p.strip() for p in row["people"].split(",") if p.strip()]
calendar_people(text) ==
    LET parts == split(text, ",")
        kept  == SelectSeq([k \in 1..Len(parts) |-> strip(parts[k])], LAMBDA q : q # <<>>)
    IN  [k \in 1..Len(kept) |-> intern(kept[k])]

\* the Event built from one row of the calendar file, or {} on ValueError
calendar_event(r) ==
    {[id |-> intern(r.event_id), timestamp_start |-> b, timestamp_end |-> e,
      source_type |-> "calendar", title |-> intern(r.title),
      details |-> [raw_location |-> intern(r.location)],
      people |-> calendar_people(r.people), location |-> intern(r.location)] :
        b \in strptime(r.start_time), e \in strptime(r.end_time)}

call_title(person, direction) ==
    IF person # <<>>
    THEN IF direction = <<"i", "n", "c", "o", "m", "i", "n", "g">> THEN <<"P", "h", "o", "n", "e", " ", "c", "a", "l", "l", " ", "f", "r", "o", "m", " ">> \o person
         ELSE IF direction = <<"o", "u", "t", "g", "o", "i", "n", "g">> THEN <<"P", "h", "o", "n", "e", " ", "c", "a", "l", "l", " ", "t", "o", " ">> \o person
         ELSE <<"P", "h", "o", "n", "e", " ", "c", "a", "l", "l", " ", "w", "i", "t", "h", " ">> \o person
    ELSE <<"P", "h", "o", "n", "e", " ", "c", "a", "l", "l">>

\* the Event built from one row of the calls file, or {} on ValueError
call_event(r) ==
    LET person       == strip(r.person)
        direction    == lower(strip(r.direction))
        duration_min == strip(r.duration_min)
    IN  {[id |-> intern(r.id), timestamp_start |-> b, timestamp_end |-> e,
          source_type |-> "call", title |-> intern(call_title(person, direction)),
          details |-> [direction |-> intern(direction),
                       duration_min |-> intern(duration_min),
                       raw_person |-> intern(person)],
          people |-> IF person # <<>> THEN <<intern(person)>> ELSE <<>>,
          location |-> NoneLoc] :
            b \in strptime(r.timestamp_start), e \in strptime(r.timestamp_end)}

\* the timestamp columns of the rows: every time of the model, and a text that
\* is no timestamp
TimeTexts == {timestamp_text(t) : t \in Times} \cup {<<"s", "o", "o", "n">>}

CalendarRows ==
    {[source |-> "calendar", event_id |-> <<"c", "1">>, start_time |-> b, end_time |-> e,
      title |-> <<"L", "u", "n", "c", "h">>, location |-> <<"H", "o", "m", "e">>, people |-> q] :
        b \in TimeTexts, e \in TimeTexts,
        q \in {<<>>, <<"A", "n", "n", ",", " ", "B", "o", "b">>, <<" ", "A", "n", "n", " ", ",">>}}

CallRows ==
    {[source |-> "calls", id |-> <<"k", "1">>, timestamp_start |-> b, timestamp_end |-> e,
      person |-> q, direction |-> d, duration_min |-> <<"1", "2">>] :
        b \in TimeTexts, e \in TimeTexts,
        q \in {<<>>, <<" ", "A", "n", "n", " ">>},
        d \in {<<"i", "n", "c", "o", "m", "i", "n", "g">>, <<" ", "O", "u", "t", "g", "o", "i", "n", "g", " ">>, <<>>}}

InitIngest ==
    /\ events = <<>>
    /\ target_date = 0
    /\ gap_minutes = 0
    /\ pc = "row"
    /\ day_events = <<>>
    /\ group_input = <<>>
    /\ sessions = <<>>
    /\ summ_args = <<>>
    /\ summaries = <<>>
    /\ raised = ""
    /\ raw_text = <<>>
    /\ sanitized = <<>>
    /\ resanitized = <<>>
    /\ result = NoResult
    /\ story_calls = 0
    /\ row \in CalendarRows \cup CallRows
    /\ wider_gap = 0
    /\ wider_sessions = <<>>

\* one pass of a loader's "for row in reader" loop
LoadRow(built) ==
    /\ IF built = {}
       THEN /\ raised' = "ValueError"
            /\ pc' = "failed"
            /\ UNCHANGED events
       ELSE /\ \E e \in built : events' = Append(events, e)
            /\ pc' = "loaded"
            /\ UNCHANGED raised
    /\ UNCHANGED <<target_date, gap_minutes, day_events, group_input, sessions,
                   summ_args, summaries>>
    /\ UNCHANGED <<text_vars, engine_vars, ingest_vars, regroup_vars>>

LoadCalendarRow ==
    /\ pc = "row"
    /\ row.source = "calendar"
    /\ LoadRow(calendar_event(row))

LoadCallRow ==
    /\ pc = "row"
    /\ row.source = "calls"
    /\ LoadRow(call_event(row))

\* summarize_session on the events a loader returned
SummarizeLoaded ==
    /\ pc = "loaded"
    /\ Summarize(events)
    /\ events' = input_after_summarize(events)
    /\ pc' = "called"
    /\ UNCHANGED <<target_date, gap_minutes, day_events, group_input,
                   sessions>>
    /\ UNCHANGED other_vars

NextIngest ==
    \/ LoadCalendarRow
    \/ LoadCallRow
    \/ SummarizeLoaded

SpecIngest == InitIngest /\ [][NextIngest]_vars

\* ----- the same list grouped at two thresholds ---------------------------------
InitRegroup ==
    /\ events \in TimedLists
    /\ target_date = 0
    /\ gap_minutes \in Gaps
    /\ pc = "init"
    /\ day_events = <<>>
    /\ group_input = <<>>
    /\ sessions = <<>>
    /\ summ_args = <<>>
    /\ summaries = <<>>
    /\ raised = ""
    /\ raw_text = <<>>
    /\ sanitized = <<>>
    /\ resanitized = <<>>
    /\ result = NoResult
    /\ story_calls = 0
    /\ row = NoRow
    /\ wider_gap = 0
    /\ wider_sessions = <<>>

\* group_into_sessions called again on the same list with a threshold that is
\* at least the first one
Regroup ==
    /\ pc = "grouped"
    /\ \E g \in Gaps :
          /\ g >= gap_minutes
          /\ wider_gap' = g
          /\ wider_sessions' = group_into_sessions(group_input, g)
          /\ events' = input_after_group(events, g)
    /\ pc' = "regrouped"
    /\ UNCHANGED <<target_date, gap_minutes, day_events, group_input, sessions,
                   summ_args, summaries, raised>>
    /\ UNCHANGED <<text_vars, engine_vars, ingest_vars>>

NextRegroup ==
    \/ GroupDirect
    \/ Regroup

SpecRegroup == InitRegroup /\ [][NextRegroup]_vars

\* ===========================================================================
\* Properties
\* ===========================================================================
IsSortedByStart(s) ==
    \A i \in 1..(Len(s) - 1) : s[i].timestamp_start <= s[i + 1].timestamp_start

\* the calls of summarize_session that returned a summary
Returned == 1..Len(summaries)

\* C1: for a time-sorted, non-empty input, the sessions returned by
\* group_into_sessions, concatenated in session order, are the input list
\* itself, and every input event is at exactly one place of one session.
C1_SessionsPartitionInput ==
    (pc = "grouped" /\ group_input # <<>> /\ IsSortedByStart(group_input)) =>
        /\ Flatten(sessions) = group_input
        /\ \A e \in Range(group_input) :
             Cardinality({x \in UNION {{<<j, i>> : i \in 1..Len(sessions[j])} :
                                          j \in 1..Len(sessions)} :
                            sessions[x[1]][x[2]] = e}) = 1

C1_Witness ==
    /\ pc = "grouped"
    /\ Len(group_input) = 3
    /\ IsSortedByStart(group_input)
    /\ Len(sessions) = 2
    /\ Flatten(sessions) = group_input

\* C2: on a sorted input, two consecutive input events are in the same session
\* exactly when the difference of their start timestamps is at most the
\* threshold, and the later one opens a new session exactly when the
\* difference exceeds it (only the two starts decide, not the session's start
\* and not an end timestamp).
InSameSession(a, b) ==
    \E j \in 1..Len(sessions) : a \in Range(sessions[j]) /\ b \in Range(sessions[j])

OpensSession(e) ==
    \E j \in 2..Len(sessions) : sessions[j] # <<>> /\ sessions[j][1] = e

C2_SplitExactlyOnStartGap ==
    (pc = "grouped" /\ IsSortedByStart(group_input)) =>
        \A k \in 2..Len(group_input) :
            LET prev == group_input[k - 1]
                curr == group_input[k]
                diff == curr.timestamp_start - prev.timestamp_start
            IN  /\ InSameSession(prev, curr) <=> (diff <= gap_minutes)
                /\ OpensSession(curr) <=> (diff > gap_minutes)

C2_Witness ==
    /\ pc = "grouped"
    /\ IsSortedByStart(group_input)
    /\ Len(group_input) = 3
    /\ group_input[3].timestamp_start - group_input[1].timestamp_start > gap_minutes
    /\ group_input[3].timestamp_start - group_input[2].timestamp_start = gap_minutes
    /\ sessions = <<group_input>>

\* C3: filter_events_for_day returns exactly the events of the input whose
\* start date is the target date: each returned event has that date and is an
\* input event, and as many are returned as the input has on that date.
C3_FilterKeepsExactlyTheDay ==
    pc = "filtered" =>
        /\ \A e \in Range(day_events) :
              date(e.timestamp_start) = target_date /\ e \in Range(events)
        /\ Len(day_events) =
              Cardinality({i \in 1..Len(events) :
                              date(events[i].timestamp_start) = target_date})
        /\ Cardinality(Range(day_events)) = Len(day_events)

C3_Witness ==
    /\ pc = "filtered"
    /\ Len(events) = 3
    /\ ~IsSortedByStart(events)
    /\ Len(day_events) = 2
    /\ \E e \in Range(events) : date(e.timestamp_start) # target_date

\* C4: the result of filter_events_for_day is ascending by start timestamp, and
\* events with equal start timestamps keep their relative input order.
InputPos(e) == CHOOSE k \in 1..Len(events) : events[k] = e

C4_FilterSortedAndStable ==
    pc = "filtered" =>
        \A i, j \in 1..Len(day_events) :
            i < j =>
                /\ day_events[i].timestamp_start <= day_events[j].timestamp_start
                /\ (day_events[i].timestamp_start = day_events[j].timestamp_start
                      => InputPos(day_events[i]) < InputPos(day_events[j]))

C4_Witness ==
    /\ pc = "filtered"
    /\ Len(day_events) = 3
    /\ day_events[1] = events[3]
    /\ day_events[2].timestamp_start = day_events[3].timestamp_start
    /\ day_events[2] = events[1]

\* C5: group_into_sessions returns the empty list for the empty input, one
\* session holding the one event for a single-event input, and never a
\* session without events.
C5_GroupBoundaries ==
    pc = "grouped" =>
        /\ (group_input = <<>> => sessions = <<>>)
        /\ (Len(group_input) = 1 => sessions = << group_input >>)
        /\ \A j \in 1..Len(sessions) : sessions[j] # <<>>

C5_Witness ==
    /\ pc = "grouped"
    /\ Len(group_input) = 1
    /\ sessions = << <<group_input[1]>> >>

\* C6: a summary's start is the first event's start timestamp; its end is the
\* last event's end timestamp when present and the last event's start
\* timestamp otherwise.
C6_SummarySpan ==
    \A i \in Returned :
        LET session == summ_args[i]
            last    == session[Len(session)]
        IN  /\ summaries[i].start = session[1].timestamp_start
            /\ (last.timestamp_end # NoneTime => summaries[i].end = last.timestamp_end)
            /\ (last.timestamp_end = NoneTime => summaries[i].end = last.timestamp_start)

C6_Witness ==
    /\ \E i \in Returned :
          /\ Len(summ_args[i]) >= 2
          /\ summ_args[i][Len(summ_args[i])].timestamp_end = NoneTime
          /\ summaries[i].end > summaries[i].start
    /\ \E i \in Returned :
          /\ summ_args[i][Len(summ_args[i])].timestamp_end # NoneTime
          /\ summaries[i].end = summ_args[i][Len(summ_args[i])].timestamp_end

\* C7: a summary's locations list holds each distinct non-null, non-empty
\* location of the session's events exactly once and nothing else, and its
\* people list each distinct participant of the events exactly once and
\* nothing else.
C7_LocationsAndPeopleAreTheSets ==
    \A i \in Returned :
        LET session == summ_args[i]
            locs    == summaries[i].locations
            ppl     == summaries[i].people
        IN  /\ Range(locs) = {session[k].location : k \in 1..Len(session)}
                                \ {NoneLoc, ""}
            /\ Cardinality(Range(locs)) = Len(locs)
            /\ Range(ppl) = {n \in Names :
                               \E k \in 1..Len(session) :
                                  \E m \in 1..Len(session[k].people) :
                                     session[k].people[m] = n}
            /\ Cardinality(Range(ppl)) = Len(ppl)

C7_Witness ==
    \E i \in Returned :
        /\ Len(summ_args[i]) = 3
        /\ \E k \in 1..3 : summ_args[i][k].location = ""
        /\ \E k \in 1..3 : summ_args[i][k].location = NoneLoc
        /\ summaries[i].locations = <<"Home">>
        /\ Len(summaries[i].people) = 2

\* C8: a summary's locations list and people list are in order of first
\* appearance in the session's events.
RECURSIVE FirstSeen(_)
FirstSeen(s) ==
    IF s = <<>> THEN <<>>
    ELSE LET rest == FirstSeen(SubSeq(s, 1, Len(s) - 1))
             x    == s[Len(s)]
         IN  IF x \in Range(rest) THEN rest ELSE Append(rest, x)

LocationsInOrder(session) ==
    LET f == SelectSeq(session, LAMBDA e : e.location \notin {NoneLoc, ""})
    IN  FirstSeen([k \in 1..Len(f) |-> f[k].location])

PeopleInOrder(session) ==
    FirstSeen(Flatten([k \in 1..Len(session) |-> session[k].people]))

C8_FirstAppearanceOrder ==
    \A i \in Returned :
        /\ summaries[i].locations = LocationsInOrder(summ_args[i])
        /\ summaries[i].people = PeopleInOrder(summ_args[i])

\* C9: a summary's titles list is the non-empty titles of the session's events
\* in event order, duplicates kept: as long as the number of events with a
\* non-empty title, the k-th entry being the title of the k-th such event.
C9_TitlesKeptInOrder ==
    \A i \in Returned :
        LET session == summ_args[i]
            titled  == {k \in 1..Len(session) : session[k].title # ""}
            nth(n)  == CHOOSE k \in titled :
                          Cardinality({q \in titled : q < k}) = n - 1
        IN  /\ Len(summaries[i].titles) = Cardinality(titled)
            /\ \A n \in 1..Len(summaries[i].titles) :
                  n <= Cardinality(titled)
                     => summaries[i].titles[n] = session[nth(n)].title

C9_Witness ==
    \E i \in Returned :
        /\ Len(summ_args[i]) = 3
        /\ summ_args[i][1].title = "Walk"
        /\ summ_args[i][2].title = ""
        /\ summ_args[i][3].title = "Walk"
        /\ summaries[i].titles = <<"Walk", "Walk">>

\* C10: summarize_session called with an empty session raises an error and
\* returns no summary: the call is the last one made, nothing was appended
\* for it, and no returned summary is one of an empty session.
C10_EmptySessionRejected ==
    /\ \A i \in 1..Len(summ_args) :
          summ_args[i] = <<>> =>
              /\ raised = "IndexError"
              /\ i = Len(summ_args)
              /\ Len(summaries) = i - 1
    /\ \A i \in Returned : summaries[i].raw_events # <<>>
    /\ (raised # "" => summ_args[Len(summ_args)] = <<>>)

C10_Witness ==
    /\ pc = "called"
    /\ summ_args = << <<>> >>
    /\ raised = "IndexError"
    /\ summaries = <<>>

\* C11: the sanitizer is idempotent: applied to its own output it returns that
\* output unchanged.
C11_SanitizerIdempotent ==
    pc = "resanitized" => resanitized = sanitized

\* C12: the output of the sanitizer contains none of the forbidden terms, in
\* any letter case.
C12_NoForbiddenTermLeft ==
    pc \in {"sanitized", "resanitized"} =>
        \A k \in 1..Len(_FORBIDDEN_HEALTH_TERMS) :
            ~contains(sanitized, _FORBIDDEN_HEALTH_TERMS[k])

\* C13: a text without a sensitive-measurement mention (no forbidden term
\* standing as a word of its own, no number with a bpm or steps unit, no
\* "vital signs" clause) comes out with all its characters: the output is the
\* input with its whitespace runs collapsed and its ends trimmed.
StandsAlone(txt, p, lit) ==
    literal_at(txt, p, lit) /\ word_boundary(txt, p) /\ word_boundary(txt, p + Len(lit))

HasMeasurementMention(txt) ==
    \/ \E k \in 1..Len(_FORBIDDEN_HEALTH_TERMS) :
          \E p \in 1..Len(txt) : StandsAlone(txt, p, _FORBIDDEN_HEALTH_TERMS[k])
    \/ \E p \in 1..Len(txt) :
          is_digit(txt[p]) /\ \E q \in (p + 1)..Len(txt) :
              /\ \A m \in (p + 1)..(q - 1) : is_digit(txt[m]) \/ is_space(txt[m])
              /\ (literal_at(txt, q, <<"b", "p", "m">>)
                    \/ literal_at(txt, q, <<"s", "t", "e", "p", "s">>))
    \/ contains(txt, <<"v", "i", "t", "a", "l", " ", "s", "i", "g", "n", "s">>)

C13_UnrelatedTextKept ==
    (pc \in {"sanitized", "resanitized"} /\ ~HasMeasurementMention(raw_text)) =>
        sanitized = strip(re_sub("spaces", <<" ">>, raw_text, 1, <<>>))

\* C14: when no event starts on the target day, run_engine_for_date returns,
\* without failing and without calling the grouper, the summarizer or the story
\* generator, a result with total_events = 0, num_sessions = 0 and the story
\* "No events were found ..."; when some event starts on that day the story is
\* never that one, total_events is the number of the day's events and
\* num_sessions the number of sessions produced.
OnTargetDay == {i \in 1..Len(events) : date(events[i].timestamp_start) = target_date}

IsNoEventsStory(story) ==
    /\ Len(story) >= 20
    /\ SubSeq(story, 1, 20) = <<"N", "o", " ", "e", "v", "e", "n", "t", "s", " ", "w", "e", "r", "e", " ", "f", "o", "u", "n", "d">>

C14_EmptyDayIsAResult ==
    pc = "returned" =>
        /\ raised = ""
        /\ IF OnTargetDay = {}
           THEN /\ result.total_events = 0
                /\ result.num_sessions = 0
                /\ IsNoEventsStory(result.memory_story)
                /\ group_input = <<>> /\ sessions = <<>>
                /\ summ_args = <<>> /\ summaries = <<>>
                /\ story_calls = 0
           ELSE /\ ~IsNoEventsStory(result.memory_story)
                /\ result.total_events = Cardinality(OnTargetDay)
                /\ result.num_sessions = Len(sessions)
                /\ Len(sessions) >= 1
                /\ story_calls = 1

C14_Witness ==
    /\ pc = "returned"
    /\ Len(events) = 2
    /\ OnTargetDay = {}
    /\ result.total_events = 0
    /\ IsNoEventsStory(result.memory_story)

\* C15: a forbidden health term that occurs in a location, people or title value
\* of a session summary appears neither in the narrative nor in the caregiver
\* summary returned by generate_ai_story_with_ollama.
SummaryValues ==
    UNION {Range(summaries[i].locations) \cup Range(summaries[i].people)
             \cup Range(summaries[i].titles) : i \in 1..Len(summaries)}

C15_StoryTextsAreSanitized ==
    (pc = "returned" /\ story_calls = 1) =>
        \A k \in 1..Len(_FORBIDDEN_HEALTH_TERMS) :
            (\E v \in SummaryValues : contains(str(v), _FORBIDDEN_HEALTH_TERMS[k])) =>
                /\ ~contains(result.memory_story, _FORBIDDEN_HEALTH_TERMS[k])
                /\ ~contains(result.caregiver_summary, _FORBIDDEN_HEALTH_TERMS[k])

\* C16: in the pipeline (filter_events_for_day, then group_into_sessions on
\* its result) every event of every session starts on the target date, the
\* events of a session are in non-decreasing order of start, and the sessions
\* are in chronological order.
FromPipeline == pc = "grouped" /\ group_input = day_events

SessionsOnDayAndOrdered ==
    \A j \in 1..Len(sessions) :
        /\ \A i \in 1..Len(sessions[j]) :
              date(sessions[j][i].timestamp_start) = target_date
        /\ IsSortedByStart(sessions[j])

LastStart(j) == sessions[j][Len(sessions[j])].timestamp_start

\* as claimed: each session's first event starts later than the last event of
\* the session before it, whatever the threshold
C16_SessionsStrictlyLater ==
    FromPipeline =>
        /\ SessionsOnDayAndOrdered
        /\ \A j \in 2..Len(sessions) :
              sessions[j][1].timestamp_start > LastStart(j - 1)

\* as amended: it starts no earlier, and later when the threshold is not
\* negative
C16_SessionsChronological ==
    FromPipeline =>
        /\ SessionsOnDayAndOrdered
        /\ \A j \in 2..Len(sessions) :
              /\ sessions[j][1].timestamp_start >= LastStart(j - 1)
              /\ (gap_minutes >= 0 => sessions[j][1].timestamp_start > LastStart(j - 1))

C16_Witness ==
    /\ FromPipeline
    /\ gap_minutes >= 0
    /\ Len(events) = 3
    /\ ~IsSortedByStart(events)
    /\ Len(sessions) = 2
    /\ sessions[1][1] = events[3]
    /\ \E e \in Range(events) : date(e.timestamp_start) # target_date

\* C17: every Event a normalizer builds has an end no earlier than its start
\* when both are present, also for a row whose end timestamp is earlier than
\* its start timestamp; so every summary of such events has end >= start.
C17_EndNotBeforeStart ==
    /\ pc \in {"loaded", "called"} =>
          \A i \in 1..Len(events) :
              events[i].timestamp_end # NoneTime =>
                  events[i].timestamp_end >= events[i].timestamp_start
    /\ pc = "called" =>
          \A i \in Returned : summaries[i].end >= summaries[i].start

\* C18: filter_events_for_day, group_into_sessions and summarize_session leave
\* the list they are given as it was (same events, same order), and the
\* raw_events of a summary is the session it was built from.
RawEventsAreTheSession ==
    \A i \in Returned :
        /\ summaries[i].raw_events = summ_args[i]
        /\ pc = "grouped" => summ_args[i] = sessions[i]

InputsKept ==
    /\ events' = events
    /\ pc # "init" => day_events' = day_events
    /\ pc = "grouped" => sessions' = sessions

C18_InputsLeftUnchanged == [](RawEventsAreTheSession) /\ [][InputsKept]_vars

C18_Witness ==
    /\ FromPipeline
    /\ ~IsSortedByStart(events)
    /\ day_events # events
    /\ Len(sessions) = 2
    /\ Len(summaries) = 2
    /\ Len(summaries[1].raw_events) = 2

\* C19: for a fixed sorted list and thresholds g1 <= g2, the grouping at g2 is
\* a coarsening of the grouping at g1 (every session at g1 lies inside one
\* session at g2), so the number of sessions does not grow with the threshold;
\* for a non-empty list it is between 1 and the number of events.
Coarsens(coarse, fine) ==
    /\ Flatten(coarse) = Flatten(fine)
    /\ \A j \in 1..Len(fine) :
          \E k \in 1..Len(coarse) : Range(fine[j]) \subseteq Range(coarse[k])

CountWithinBounds(groups, evs) ==
    evs # <<>> => (1 <= Len(groups) /\ Len(groups) <= Len(evs))

C19_WiderGapCoarsens ==
    (pc = "regrouped" /\ IsSortedByStart(group_input)) =>
        /\ Coarsens(wider_sessions, sessions)
        /\ Len(wider_sessions) <= Len(sessions)
        /\ CountWithinBounds(sessions, group_input)
        /\ CountWithinBounds(wider_sessions, group_input)

C19_Witness ==
    /\ pc = "regrouped"
    /\ IsSortedByStart(group_input)
    /\ wider_gap > gap_minutes
    /\ Len(group_input) = 3
    /\ Len(sessions) = 3
    /\ Len(wider_sessions) = 2

====
